---- MODULE Spec2Model ----
(***************************************************************************)
(* Model of streamlit_app.py: the Pokemon data class (from_dict,           *)
(* front_image, back_image, stats_series), the two loaders (load_pokemon,  *)
(* load_all_pokemons behind st.cache), pokemon_template and the            *)
(* module-level page script that Streamlit re-runs on every selection.     *)
(*                                                                         *)
(* Python values are modelled as follows.  A dict decoded from JSON is a   *)
(* function whose DOMAIN is its set of keys; a list is a sequence; None is *)
(* the constant None.  A call that may raise returns a record with the     *)
(* field exc (the exception's class name, "" when the call returned) and,  *)
(* when it returned, the field ret.  An insertion-ordered dict built by a  *)
(* comprehension is a sequence of <<key, value>> pairs with distinct keys. *)
(***************************************************************************)
EXTENDS Integers, Sequences, FiniteSets, TLC

VARIABLES
    run,             \* number of script runs started in this process
    pc,              \* position of the running script / of the class client
    cache,           \* st.cache's memo of load_all_pokemons()
    options,         \* the list handed to st.sidebar.selectbox in this run
    pokemon_choice,  \* line 124: the value selectbox returned
    pokemon_name,    \* the argument load_pokemon was invoked with
    record,          \* what load_pokemon returned (from_dict's payload)
    pokemon,         \* the Pokemon instance (bulbasaur, pokemon_to_render)
    heap,            \* the io.BytesIO objects allocated, in allocation order
    front,           \* what front_image returned: an index into heap
    back,            \* what back_image returned: an index into heap
    series,          \* what stats_series returned, or the exception it raised
    exc,             \* the exception the last operation raised ("" if none)
    steps,           \* the operations invoked in this run, in order
    last,            \* the last requests.get call: its url and its outcome
    listGets,        \* HTTP GETs issued against the listing endpoint
    spriteCalls,     \* front_image/back_image calls with a non-None url
    spriteGets,      \* HTTP GETs issued against sprite urls
    returned         \* the lists load_all_pokemons() has returned so far

vars == <<run, pc, cache, options, pokemon_choice, pokemon_name, record,
          pokemon, heap, front, back, series, exc, steps, last, listGets,
          spriteCalls, spriteGets, returned>>

-----------------------------------------------------------------------------
(* Bounds *)

MaxRuns == 2      \* script runs per process
MaxCatalog == 2   \* entries of the listing response's results
MaxStats == 2     \* entries of a record's stats
MaxCalls == 3     \* accessor calls a client makes on one instance

-----------------------------------------------------------------------------
(* Python values *)

None == "<None>"

Ok(v) == [exc |-> "", ret |-> v]
Raise(e) == [exc |-> e]

\* str(x) as an f-string or requests applies it
Str(x) == IF x = None THEN "None" ELSE x

\* m[k] on a dict
GetItem(m, k) == IF k \in DOMAIN m THEN Ok(m[k]) ELSE Raise("KeyError")

\* a dict without the key k
Without(m, k) == [f \in DOMAIN m \ {k} |-> m[f]]

Range(s) == {s[i] : i \in DOMAIN s}

SeqsUpTo(S, n) == UNION {[1..k -> S] : k \in 0..n}

-----------------------------------------------------------------------------
(* What the remote service may send.  A response is its status code and    *)
(* its body; a text body either decodes as JSON to a value or does not.    *)

PokemonNames == {"bulbasaur", "ivysaur"}

JsonText(v) == [valid |-> TRUE, value |-> v]
NotJson == [valid |-> FALSE]

StatusCodes == {200, 404}

\* one entry of the listing's results; the last lacks the key name
ResultEntries ==
    {[name |-> n, url |-> "u"] : n \in PokemonNames} \cup {[url |-> "u"]}

ListingBodies ==
    {JsonText([count |-> Len(rs), results |-> rs]) :
        rs \in SeqsUpTo(ResultEntries, MaxCatalog)}
    \cup {JsonText([detail |-> "Not found."]), NotJson}

ListingResponses ==
    {[status_code |-> c, text |-> t] : c \in StatusCodes, t \in ListingBodies}

\* one entry of a record's stats; the last two lack base_stat / stat.name
StatEntries ==
    {[stat |-> [name |-> "hp"], base_stat |-> 45],
     [stat |-> [name |-> "hp"], base_stat |-> 49],
     [stat |-> [name |-> "attack"], base_stat |-> 49],
     [stat |-> [name |-> "attack"]],
     [stat |-> [url |-> "u"], base_stat |-> 45]}

WellFormedStat(e) ==
    /\ DOMAIN e = {"stat", "base_stat"}
    /\ "name" \in DOMAIN e.stat

FrontUrl == "url-f"
BackUrl == "url-b"

\* sprites: each url is a text or null
SpriteObjects ==
    {[front_default |-> f, back_default |-> b] :
        f \in {FrontUrl, None}, b \in {BackUrl, None}}

FullRecords ==
    {[name |-> n, base_experience |-> 64, sprites |-> sp, stats |-> st] :
        n \in PokemonNames, sp \in SpriteObjects,
        st \in SeqsUpTo(StatEntries, MaxStats)}

\* the records the service may answer with: complete ones, and ones that
\* lack one top-level key or one key of sprites
Records ==
    FullRecords
    \cup {Without(r, k) : r \in FullRecords, k \in {"name", "base_experience", "sprites", "stats"}}
    \cup {[r EXCEPT !.sprites = Without(r.sprites, k)] :
            r \in FullRecords, k \in {"front_default", "back_default"}}

RecordResponses ==
    {[status_code |-> 200, text |-> JsonText(r)] : r \in Records}
    \cup {[status_code |-> c, text |-> t] :
            c \in StatusCodes, t \in {JsonText([detail |-> "Not found."]), NotJson}}

PngBytes == <<137, 80, 78, 71>>
ErrorPageBytes == <<60, 104, 49, 62>>

SpriteResponses ==
    {[status_code |-> 200, content |-> PngBytes],
     [status_code |-> 200, content |-> <<>>],
     [status_code |-> 404, content |-> ErrorPageBytes]}

-----------------------------------------------------------------------------
(* The libraries the program calls *)

\* requests.get(url): the outcomes it can have when the service may answer
\* with any of `served`.  A None url is rejected while the request is
\* prepared (MissingSchema), before anything is sent; otherwise the request
\* is sent and either the transport fails or a response comes back, whatever
\* its status code: requests.get does not raise on a non-2xx status.
requests_get(url, served) ==
    IF url = None
    THEN {Raise("MissingSchema")}
    ELSE {Raise("ConnectionError"), Raise("Timeout")} \cup {Ok(r) : r \in served}

\* whether requests.get(url) puts an HTTP GET on the wire
Sends(url) == url # None

\* json.loads(text)
json_loads(text) ==
    IF text.valid THEN Ok(text.value) ELSE Raise("JSONDecodeError")

\* io.BytesIO(content): a new buffer over the bytes, positioned at the start
BytesIO(content) == [buffer |-> content, pos |-> 0]

\* d[k] = v on an insertion-ordered dict: a key already present keeps its
\* place and takes the new value, a new key goes to the end
RECURSIVE DictSet(_, _, _)
DictSet(d, k, v) ==
    IF d = <<>> THEN <<<<k, v>>>>
    ELSE IF Head(d)[1] = k THEN <<<<k, v>>>> \o Tail(d)
    ELSE <<Head(d)>> \o DictSet(Tail(d), k, v)

\* pd.Series(d) of a dict: the keys become the index, in the dict's order
pd_Series(d) ==
    [index |-> [i \in DOMAIN d |-> d[i][1]],
     values |-> [i \in DOMAIN d |-> d[i][2]]]

-----------------------------------------------------------------------------
(* class Pokemon *)

\* from_dict with payload.get("stats", []) in place of payload["stats"]
from_dict_default_stats(payload) ==
    IF {"name", "base_experience", "sprites"} \subseteq DOMAIN payload
       /\ {"front_default", "back_default"} \subseteq DOMAIN payload.sprites
    THEN Ok([name |-> payload.name,
             base_experience |-> payload.base_experience,
             sprite_front_default |-> payload.sprites.front_default,
             sprite_back_default |-> payload.sprites.back_default,
             stats |-> IF "stats" \in DOMAIN payload THEN payload.stats ELSE <<>>])
    ELSE Raise("KeyError")

\* from_dict with front_default read for both sprites
from_dict_same_sprite(payload) ==
    IF {"name", "base_experience", "sprites", "stats"} \subseteq DOMAIN payload
       /\ {"front_default", "back_default"} \subseteq DOMAIN payload.sprites
    THEN Ok([name |-> payload.name,
             base_experience |-> payload.base_experience,
             sprite_front_default |-> payload.sprites.front_default,
             sprite_back_default |-> payload.sprites.front_default,
             stats |-> payload.stats])
    ELSE Raise("KeyError")

\* Pokemon.from_dict(payload): the five subscripts in the order the call
\* evaluates them; the first missing key raises KeyError
from_dict(payload) ==
    LET name == GetItem(payload, "name")
        base_experience == GetItem(payload, "base_experience")
        sprites == GetItem(payload, "sprites")
        stats == GetItem(payload, "stats")
    IN  IF name.exc # "" THEN Raise(name.exc)
        ELSE IF base_experience.exc # "" THEN Raise(base_experience.exc)
        ELSE IF sprites.exc # "" THEN Raise(sprites.exc)
        ELSE LET front_default == GetItem(sprites.ret, "front_default")
                 back_default == GetItem(sprites.ret, "back_default")
             IN  IF front_default.exc # "" THEN Raise(front_default.exc)
                 ELSE IF back_default.exc # "" THEN Raise(back_default.exc)
                 ELSE IF stats.exc # "" THEN Raise(stats.exc)
                 ELSE Ok([name |-> name.ret,
                          base_experience |-> base_experience.ret,
                          sprite_front_default |-> front_default.ret,
                          sprite_back_default |-> back_default.ret,
                          stats |-> stats.ret])

\* the dict comprehension of stats_series, run over `stats` with the dict
\* built so far
RECURSIVE stats_dict(_, _)
stats_dict(stats, d) ==
    IF stats = <<>> THEN Ok(d)
    ELSE LET stat == Head(stats)
             inner == GetItem(stat, "stat")
         IN  IF inner.exc # "" THEN Raise(inner.exc)
             ELSE LET key == GetItem(inner.ret, "name")
                      value == GetItem(stat, "base_stat")
                  IN  IF key.exc # "" THEN Raise(key.exc)
                      ELSE IF value.exc # "" THEN Raise(value.exc)
                      ELSE stats_dict(Tail(stats), DictSet(d, key.ret, value.ret))

\* stats_series with the loop running over the stats back to front
stats_series_reversed(self) ==
    LET n == Len(self.stats)
        d == stats_dict([i \in 1..n |-> self.stats[n + 1 - i]], <<>>)
    IN  IF d.exc # "" THEN Raise(d.exc) ELSE Ok(pd_Series(d.ret))

\* Pokemon.stats_series
stats_series(self) ==
    LET d == stats_dict(self.stats, <<>>)
    IN  IF d.exc # "" THEN Raise(d.exc) ELSE Ok(pd_Series(d.ret))

\* front_image with the body written into an empty buffer and no seek(0)
front_image_at_end(self, out) ==
    IF out.exc # "" THEN Raise(out.exc)
    ELSE Ok([buffer |-> out.ret.content, pos |-> Len(out.ret.content)])

\* Pokemon.front_image, given the outcome of its requests.get
front_image(self, out) ==
    IF out.exc # "" THEN Raise(out.exc) ELSE Ok(BytesIO(out.ret.content))

\* Pokemon.back_image, given the outcome of its requests.get
back_image(self, out) ==
    IF out.exc # "" THEN Raise(out.exc) ELSE Ok(BytesIO(out.ret.content))

-----------------------------------------------------------------------------
(* The loaders *)

poke_url(name) == "https://pokeapi.co/api/v2/pokemon/" \o Str(name) \o "/"

list_url == "https://pokeapi.co/api/v2/pokemon?limit=100000&offset=0"

\* load_pokemon, given the outcome of its requests.get
load_pokemon(out) ==
    IF out.exc # "" THEN Raise(out.exc) ELSE json_loads(out.ret.text)

\* the comprehension of load_all_pokemons with the names passed through a
\* set of the names seen, each name kept once
RECURSIVE result_names_unique(_)
result_names_unique(results) ==
    IF results = <<>> THEN Ok(<<>>)
    ELSE LET n == Len(results)
             name == GetItem(results[n], "name")
             rest == result_names_unique(SubSeq(results, 1, n - 1))
         IN  IF rest.exc # "" THEN Raise(rest.exc)
             ELSE IF name.exc # "" THEN Raise(name.exc)
             ELSE IF name.ret \in Range(rest.ret) THEN rest
             ELSE Ok(Append(rest.ret, name.ret))

\* the list comprehension of load_all_pokemons
RECURSIVE result_names(_)
result_names(results) ==
    IF results = <<>> THEN Ok(<<>>)
    ELSE LET name == GetItem(Head(results), "name")
             rest == result_names(Tail(results))
         IN  IF name.exc # "" THEN Raise(name.exc)
             ELSE IF rest.exc # "" THEN Raise(rest.exc)
             ELSE Ok(<<name.ret>> \o rest.ret)

\* the body of load_all_pokemons, given the outcome of its requests.get
load_all_pokemons(out) ==
    IF out.exc # "" THEN Raise(out.exc)
    ELSE LET resp_to_json == json_loads(out.ret.text)
         IN  IF resp_to_json.exc # "" THEN Raise(resp_to_json.exc)
             ELSE LET results == GetItem(resp_to_json.ret, "results")
                  IN  IF results.exc # "" THEN Raise(results.exc)
                      ELSE result_names(results.ret)

\* load_all_pokemons without its decorator: nothing is stored
CacheNothing(value) == [set |-> FALSE]

\* @st.cache on a function without arguments: a call that returns stores
\* its value, a call that raises stores nothing
CacheEmpty == [set |-> FALSE]
CacheStore(value) == [set |-> TRUE, value |-> value]

\* st.sidebar.selectbox(label, options): the option at the widget's index,
\* which is 0 until the user has picked another one; None without options
selectbox(opts, picked) ==
    IF opts = <<>> THEN {None}
    ELSE IF picked THEN Range(opts) ELSE {opts[1]}

-----------------------------------------------------------------------------
(* State *)

Unset == [unset |-> TRUE]
NotCalled == "<not called>"

\* the names of one script run, before the run has bound them
FreshRun ==
    /\ options = <<>>
    /\ pokemon_choice = None
    /\ pokemon_name = NotCalled
    /\ record = Unset
    /\ pokemon = Unset
    /\ heap = <<>>
    /\ front = 0
    /\ back = 0
    /\ series = Unset
    /\ exc = ""
    /\ steps = <<>>
    /\ last = Unset

\* a process that has just started: nothing memoized, nothing requested,
\* the script about to run for the first time
Init ==
    /\ run = 1
    /\ pc = "load_all_pokemons"
    /\ cache = CacheEmpty
    /\ listGets = 0
    /\ spriteCalls = 0
    /\ spriteGets = 0
    /\ returned = {}
    /\ FreshRun

-----------------------------------------------------------------------------
(* The operations, each at a position `at` of its caller, which goes on to *)
(* `next` when the operation returns and to `failed` when it raises.       *)

\* line 126, the outer call: Pokemon.from_dict(<the loaded record>)
CallFromDict(at, next, failed) ==
    /\ pc = at
    /\ steps' = Append(steps, "from_dict")
    /\ LET r == from_dict(record)
       IN  IF r.exc # ""
           THEN /\ exc' = r.exc
                /\ pc' = failed
                /\ UNCHANGED pokemon
           ELSE /\ exc' = ""
                /\ pc' = next
                /\ pokemon' = r.ret
    /\ UNCHANGED <<run, cache, options, pokemon_choice, pokemon_name, record,
                   heap, front, back, series, last, listGets, spriteCalls,
                   spriteGets, returned>>

\* line 115, first element: pokemon_to_render.front_image
CallFrontImage(at, next, failed) ==
    /\ pc = at
    /\ steps' = Append(steps, "front_image")
    /\ LET url == pokemon.sprite_front_default
       IN  /\ spriteCalls' = spriteCalls + (IF url # None THEN 1 ELSE 0)
           /\ spriteGets' = spriteGets + (IF Sends(url) THEN 1 ELSE 0)
           /\ \E out \in requests_get(url, SpriteResponses) :
                LET r == front_image(pokemon, out)
                IN  /\ last' = [url |-> url, out |-> out]
                    /\ IF r.exc # ""
                       THEN /\ exc' = r.exc
                            /\ pc' = failed
                            /\ UNCHANGED <<heap, front>>
                       ELSE /\ exc' = ""
                            /\ pc' = next
                            /\ heap' = Append(heap, r.ret)
                            /\ front' = Len(heap) + 1
    /\ UNCHANGED <<run, cache, options, pokemon_choice, pokemon_name, record,
                   pokemon, back, series, listGets, returned>>

\* line 115, second element: pokemon_to_render.back_image
CallBackImage(at, next, failed) ==
    /\ pc = at
    /\ steps' = Append(steps, "back_image")
    /\ LET url == pokemon.sprite_back_default
       IN  /\ spriteCalls' = spriteCalls + (IF url # None THEN 1 ELSE 0)
           /\ spriteGets' = spriteGets + (IF Sends(url) THEN 1 ELSE 0)
           /\ \E out \in requests_get(url, SpriteResponses) :
                LET r == back_image(pokemon, out)
                IN  /\ last' = [url |-> url, out |-> out]
                    /\ IF r.exc # ""
                       THEN /\ exc' = r.exc
                            /\ pc' = failed
                            /\ UNCHANGED <<heap, back>>
                       ELSE /\ exc' = ""
                            /\ pc' = next
                            /\ heap' = Append(heap, r.ret)
                            /\ back' = Len(heap) + 1
    /\ UNCHANGED <<run, cache, options, pokemon_choice, pokemon_name, record,
                   pokemon, front, series, listGets, returned>>

\* stats_series emptying self.stats as it goes (while self.stats: pop(0))
CallStatsSeriesConsuming(at, next, failed) ==
    /\ pc = at
    /\ steps' = Append(steps, "stats_series")
    /\ LET r == stats_series(pokemon)
       IN  /\ series' = r
           /\ exc' = r.exc
           /\ pc' = IF r.exc # "" THEN failed ELSE next
    /\ pokemon' = [pokemon EXCEPT !.stats = <<>>]
    /\ UNCHANGED <<run, cache, options, pokemon_choice, pokemon_name, record,
                   heap, front, back, last, listGets, spriteCalls,
                   spriteGets, returned>>

\* line 116: pokemon_to_render.stats_series
CallStatsSeries(at, next, failed) ==
    /\ pc = at
    /\ steps' = Append(steps, "stats_series")
    /\ LET r == stats_series(pokemon)
       IN  /\ series' = r
           /\ exc' = r.exc
           /\ pc' = IF r.exc # "" THEN failed ELSE next
    /\ UNCHANGED <<run, cache, options, pokemon_choice, pokemon_name, record,
                   pokemon, heap, front, back, last, listGets, spriteCalls,
                   spriteGets, returned>>

-----------------------------------------------------------------------------
(* The page script, lines 122-128, which Streamlit runs from the top for   *)
(* every selection the user makes.  An exception that leaves the script    *)
(* ends the run.                                                           *)

\* line 124: load_all_pokemons() through st.cache, then the selectbox
LoadAllPokemons ==
    /\ pc = "load_all_pokemons"
    /\ steps' = Append(steps, "load_all_pokemons")
    /\ IF cache.set
       THEN /\ options' = cache.value
            /\ returned' = returned \cup {cache.value}
            /\ \E c \in selectbox(cache.value, TRUE) : pokemon_choice' = c
            /\ pc' = "load_pokemon"
            /\ UNCHANGED <<cache, listGets, last, exc>>
       ELSE \E out \in requests_get(list_url, ListingResponses) :
                LET r == load_all_pokemons(out)
                IN  /\ last' = [url |-> list_url, out |-> out]
                    /\ listGets' = listGets + (IF Sends(list_url) THEN 1 ELSE 0)
                    /\ IF r.exc # ""
                       THEN /\ exc' = r.exc
                            /\ pc' = "failed"
                            /\ UNCHANGED <<cache, options, pokemon_choice,
                                           returned>>
                       ELSE /\ cache' = CacheStore(r.ret)
                            /\ options' = r.ret
                            /\ returned' = returned \cup {r.ret}
                            /\ \E c \in selectbox(r.ret, FALSE) : pokemon_choice' = c
                            /\ pc' = "load_pokemon"
                            /\ UNCHANGED exc
    /\ UNCHANGED <<run, pokemon_name, record, pokemon, heap, front, back,
                   series, spriteCalls, spriteGets>>

\* line 126, the inner call: load_pokemon(pokemon_choice)
LoadPokemon ==
    /\ pc = "load_pokemon"
    /\ steps' = Append(steps, "load_pokemon")
    /\ pokemon_name' = pokemon_choice
    /\ \E out \in requests_get(poke_url(pokemon_choice), RecordResponses) :
         LET r == load_pokemon(out)
         IN  /\ last' = [url |-> poke_url(pokemon_choice), out |-> out]
             /\ IF r.exc # ""
                THEN /\ exc' = r.exc
                     /\ pc' = "failed"
                     /\ UNCHANGED record
                ELSE /\ record' = r.ret
                     /\ pc' = "from_dict"
                     /\ UNCHANGED exc
    /\ UNCHANGED <<run, cache, options, pokemon_choice, pokemon, heap, front,
                   back, series, listGets, spriteCalls, spriteGets, returned>>

FromDict == CallFromDict("from_dict", "front_image", "failed")

\* pokemon_template, lines 114-116
FrontImage == CallFrontImage("front_image", "back_image", "failed")

BackImage == CallBackImage("back_image", "stats_series", "failed")

StatsSeries == CallStatsSeries("stats_series", "done", "failed")

\* the user selects a pokemon (or reloads the page): the script runs again
\* in the same process, with new names and the same st.cache
Rerun ==
    /\ pc \in {"done", "failed"}
    /\ run < MaxRuns
    /\ run' = run + 1
    /\ pc' = "load_all_pokemons"
    /\ options' = <<>>
    /\ pokemon_choice' = None
    /\ pokemon_name' = NotCalled
    /\ record' = Unset
    /\ pokemon' = Unset
    /\ heap' = <<>>
    /\ front' = 0
    /\ back' = 0
    /\ series' = Unset
    /\ exc' = ""
    /\ steps' = <<>>
    /\ last' = Unset
    /\ UNCHANGED <<cache, listGets, spriteCalls, spriteGets, returned>>

Next ==
    \/ LoadAllPokemons
    \/ LoadPokemon
    \/ FromDict
    \/ FrontImage
    \/ BackImage
    \/ StatsSeries
    \/ Rerun

Spec == Init /\ [][Next]_vars

-----------------------------------------------------------------------------
(* The class on its own: a caller that builds one instance from a record   *)
(* and then reads its three properties in any order, any number of times   *)
(* up to MaxCalls, going on after a property raised.                       *)

ClientInit ==
    /\ run = 1
    /\ pc = "construct"
    /\ cache = CacheEmpty
    /\ listGets = 0
    /\ spriteCalls = 0
    /\ spriteGets = 0
    /\ returned = {}
    /\ options = <<>>
    /\ pokemon_choice = None
    /\ pokemon_name = NotCalled
    /\ record \in Records
    /\ pokemon = Unset
    /\ heap = <<>>
    /\ front = 0
    /\ back = 0
    /\ series = Unset
    /\ exc = ""
    /\ steps = <<>>
    /\ last = Unset

ClientFromDict == CallFromDict("construct", "built", "rejected")

ClientFrontImage ==
    /\ Len(steps) <= MaxCalls
    /\ CallFrontImage("built", "built", "built")

ClientBackImage ==
    /\ Len(steps) <= MaxCalls
    /\ CallBackImage("built", "built", "built")

ClientStatsSeries ==
    /\ Len(steps) <= MaxCalls
    /\ CallStatsSeries("built", "built", "built")

ClientNext ==
    \/ ClientFromDict
    \/ ClientFrontImage
    \/ ClientBackImage
    \/ ClientStatsSeries

ClientSpec == ClientInit /\ [][ClientNext]_vars

-----------------------------------------------------------------------------
(* Properties *)

LastStep == IF steps = <<>> THEN "" ELSE steps[Len(steps)]

Called(op) == op \in Range(steps)

StatNames(stats) == [i \in DOMAIN stats |-> stats[i].stat.name]

FirstAt(names, n) == CHOOSE i \in DOMAIN names :
    names[i] = n /\ \A j \in DOMAIN names : names[j] = n => i <= j

LastAt(names, n) == CHOOSE i \in DOMAIN names :
    names[i] = n /\ \A j \in DOMAIN names : names[j] = n => j <= i

\* stats_series has been evaluated on an instance whose stats are all
\* well formed
SeriesOfWellFormed ==
    /\ pokemon # Unset
    /\ series # Unset
    /\ \A i \in DOMAIN pokemon.stats : WellFormedStat(pokemon.stats[i])

\* C1, as claimed: for every well-formed stats sequence, stats_series has
\* exactly one entry per element of stats, the element's stat name mapped to
\* its base value, in the order of the sequence.
C1_OneEntryPerElement ==
    SeriesOfWellFormed =>
        /\ series.exc = ""
        /\ series.ret.index = StatNames(pokemon.stats)
        /\ series.ret.values = [i \in DOMAIN pokemon.stats |-> pokemon.stats[i].base_stat]

\* C1, amended: for every well-formed stats sequence, stats_series returns
\* without raising and has exactly one entry per distinct stat name, in the
\* order in which the names first occur in stats, each name mapped to the
\* base value of the last element that carries it; when the names are
\* pairwise distinct this is one entry per element, in sequence order.
C1_OneEntryPerName ==
    SeriesOfWellFormed =>
        LET names == StatNames(pokemon.stats)
            index == series.ret.index
            values == series.ret.values
        IN  /\ series.exc = ""
            /\ Len(index) = Cardinality(Range(names))
            /\ Len(values) = Len(index)
            /\ Range(index) = Range(names)
            /\ \A i, j \in DOMAIN index :
                 i < j => FirstAt(names, index[i]) < FirstAt(names, index[j])
            /\ \A i \in DOMAIN index :
                 values[i] = pokemon.stats[LastAt(names, index[i])].base_stat
            /\ Cardinality(Range(names)) = Len(names) =>
                 /\ index = names
                 /\ values = [i \in DOMAIN names |-> pokemon.stats[i].base_stat]

\* two elements with the same stat name and different base values have been
\* flattened into one entry, and (in another record) two with different
\* names into two
C1_Witness ==
    /\ SeriesOfWellFormed
    /\ Len(pokemon.stats) = 2
    /\ pokemon.stats[1].stat.name = pokemon.stats[2].stat.name
    /\ pokemon.stats[1].base_stat # pokemon.stats[2].base_stat
    /\ Len(series.ret.index) = 1

\* front_image / back_image has just been evaluated on an instance whose
\* sprite url is None
NullSpriteRead ==
    /\ pokemon # Unset
    /\ \/ LastStep = "front_image" /\ pokemon.sprite_front_default = None
       \/ LastStep = "back_image" /\ pokemon.sprite_back_default = None

\* C2: when the sprite url is None, front_image / back_image hands
\* requests.get no None url and raises nothing (it returns "no image").
C2_NullSpriteGivesNoImage ==
    NullSpriteRead =>
        /\ exc = ""
        /\ last = Unset \/ last.url # None

LacksKey(payload) ==
    \/ \E k \in {"name", "base_experience", "sprites", "stats"} : k \notin DOMAIN payload
    \/ /\ "sprites" \in DOMAIN payload
       /\ \E k \in {"front_default", "back_default"} : k \notin DOMAIN payload.sprites

\* C3: from_dict on a payload that lacks one of name, base_experience,
\* sprites, sprites.front_default, sprites.back_default, stats raises
\* KeyError and yields no instance, so no statistics view (empty or not) is
\* ever computed for such a payload.
C3_MissingKeyRaises ==
    (record # Unset /\ LacksKey(record)) =>
        /\ pokemon = Unset
        /\ series = Unset
        /\ Called("from_dict") => (exc = "KeyError" /\ pc = "rejected")

\* from_dict has rejected a record that lacks only its stats
C3_Witness ==
    /\ pc = "rejected"
    /\ exc = "KeyError"
    /\ DOMAIN record = {"name", "base_experience", "sprites"}
    /\ DOMAIN record.sprites = {"front_default", "back_default"}

\* the outcome of a requests.get is a transport error: the transport raised,
\* or the response's status is not 2xx
TransportError(out) ==
    \/ out.exc # ""
    \/ out.ret.status_code \notin 200..299

\* the last operation of this run issued the last HTTP GET
LastStepIssuedGet ==
    /\ last # Unset
    /\ LastStep \in {"load_all_pokemons", "load_pokemon", "front_image", "back_image"}

\* C4: an operation whose HTTP GET ends in a transport error (the transport
\* raises, or the status is not 2xx) raises and returns nothing.
C4_TransportErrorPropagates ==
    (LastStepIssuedGet /\ TransportError(last.out)) =>
        /\ exc # ""
        /\ pc = "failed"

\* C5: the listing endpoint is fetched once per process: every call of
\* load_all_pokemons() returns the same list, and once a call has returned,
\* no later call issues an HTTP GET against the listing endpoint.
C5_ListingFetchedOnce ==
    /\ [](Cardinality(returned) <= 1)
    /\ [][returned # {} => (listGets' = listGets /\ returned' = returned)]_vars

\* a second run has been served the two-name list the first run fetched
C5_Witness ==
    /\ run = 2
    /\ LastStep = "load_all_pokemons"
    /\ pc = "load_pokemon"
    /\ listGets = 1
    /\ Len(options) = 2
    /\ returned = {options}

\* line 124 has just run and handed its list to the selectbox
ListingHandedOver == steps = <<"load_all_pokemons">> /\ pc = "load_pokemon"

\* C6: load_all_pokemons returns the name of every entry of the response's
\* results, one per entry and in the same order, and the selectbox gets that
\* list unchanged (in a later run, the memoized list unchanged).
C6_NamesInOrder ==
    ListingHandedOver =>
        /\ cache.set
        /\ options = cache.value
        /\ last # Unset =>
             LET results == last.out.ret.text.value.results
             IN  options = [i \in DOMAIN results |-> results[i].name]

\* a listing whose two entries carry the same name has been fetched and
\* handed over
C6_Witness ==
    /\ ListingHandedOver
    /\ last # Unset
    /\ Len(last.out.ret.text.value.results) = 2
    /\ options = <<"ivysaur", "ivysaur">>

\* this step is a front_image / back_image call on a non-None sprite url
SpriteRead(url) ==
    /\ pokemon # Unset
    /\ url # None
    /\ \/ steps' = Append(steps, "front_image") /\ url = pokemon.sprite_front_default
       \/ steps' = Append(steps, "back_image") /\ url = pokemon.sprite_back_default

\* C7: every front_image / back_image call on a non-None sprite url issues
\* exactly one HTTP GET to that url (so n calls issue n GETs), and when the
\* GET brings a response the call returns a new buffer, positioned at the
\* start, that holds the response's body, leaving the earlier buffers as
\* they were.
C7_EveryCallFetches ==
    /\ [](spriteGets = spriteCalls)
    /\ [][\A url \in {FrontUrl, BackUrl} : SpriteRead(url) =>
            /\ spriteGets' = spriteGets + 1
            /\ last'.url = url
            /\ last'.out.exc = "" =>
                 /\ exc' = ""
                 /\ heap' = Append(heap, [buffer |-> last'.out.ret.content, pos |-> 0])
                 /\ IF steps' = Append(steps, "front_image")
                    THEN front' = Len(heap) + 1 /\ front' # back
                    ELSE back' = Len(heap) + 1 /\ back' # front]_vars

\* front_image has been read twice on one instance: two GETs, two buffers
\* with different bodies
C7_Witness ==
    /\ steps = <<"from_dict", "front_image", "front_image">>
    /\ spriteGets = 2
    /\ Len(heap) = 2
    /\ heap[1].buffer # heap[2].buffer
    /\ front = 2

\* C8: on one instance, every stats_series call returns what the call before
\* it returned, whatever front_image / back_image calls came in between.
C8_StatsSeriesIdempotent ==
    [][(series # Unset /\ series' # Unset) => series' = series]_vars

\* stats_series read, then an image fetched, then stats_series read again
C8_Witness ==
    /\ steps = <<"from_dict", "stats_series", "front_image", "stats_series">>
    /\ series.exc = ""
    /\ Len(series.ret.index) = 2
    /\ Len(heap) = 1

\* the five fields of an instance holding record verbatim
Verbatim(payload) ==
    [name |-> payload.name,
     base_experience |-> payload.base_experience,
     sprite_front_default |-> payload.sprites.front_default,
     sprite_back_default |-> payload.sprites.back_default,
     stats |-> payload.stats]

\* C9: the instance holds the record's name, base_experience, two sprite
\* urls and stats verbatim, and no operation of the run changes any of the
\* five fields.
C9_NeverMutated ==
    /\ [](pokemon # Unset => pokemon = Verbatim(record))
    /\ [][(pokemon # Unset /\ pokemon' # Unset) => pokemon' = pokemon]_vars

\* a run has gone through pokemon_template: both images and the series read
C9_Witness ==
    /\ pc = "done"
    /\ pokemon # Unset
    /\ front # 0
    /\ back # 0
    /\ series # Unset
    /\ pokemon.sprite_front_default # pokemon.sprite_back_default
    /\ Len(pokemon.stats) = 2

ScriptOrder ==
    <<"load_all_pokemons", "load_pokemon", "from_dict", "front_image",
      "back_image", "stats_series">>

\* C10: the steps of a run are taken in the script's order (catalog, record,
\* instance, front image, back image, statistics), load_pokemon is only
\* invoked with an element of the catalog of that run, and a run whose step
\* raised has stopped at that step.
C10_RunOrder ==
    /\ Len(steps) <= Len(ScriptOrder)
    /\ steps = SubSeq(ScriptOrder, 1, Len(steps))
    /\ pokemon_name # NotCalled => pokemon_name \in Range(options)
    /\ exc # "" => pc = "failed"

====
